---- MODULE Spec2Model ----
(***************************************************************************)
(* Model of the pixel-to-text core of santaiworks/pythonrnd:               *)
(*   ascii_art_generator/main.py  (the image tool)                         *)
(*   ascii_video_webcam/main.py   (the video/webcam tool)                  *)
(* resize_pixels, dither_pixels and map_to_ascii are translated statement  *)
(* by statement.  Python's float is IEEE-754 binary64; the arithmetic of   *)
(* the three functions is modelled with that rounding (round to nearest,   *)
(* ties to even), because int() and round() of a float decide which source *)
(* pixel and which glyph is chosen.                                        *)
(* dither_pixels and map_to_ascii are the same text in the two files;      *)
(* resize_pixels differs in one place: the video tool has the parameter    *)
(* ratio (default 0.43) where the image tool has the literal 0.43.         *)
(***************************************************************************)
EXTENDS Integers, Sequences, FiniteSets, TLC

(***************************************************************************)
(* Natural numbers of any size: little-endian sequences of limbs.  They    *)
(* carry the 53-bit significands and the exact intermediate results of     *)
(* the float operations.                                                   *)
(***************************************************************************)
LimbBits == 15
LimbBase == 2^LimbBits

\* A function written [i \in S |-> e] is evaluated again at every application.
\* Tup (for a sequence) and Fcn (for any function) give the same function
\* with its values computed once.
Tup(f) == f \o <<>>
Fcn(f) == f @@ <<>>

Max(a, b) == IF a >= b THEN a ELSE b
Min(a, b) == IF a <= b THEN a ELSE b

RECURSIVE BTrim(_)
BTrim(a) ==
    IF a = <<>> THEN a
    ELSE IF a[Len(a)] = 0 THEN BTrim(SubSeq(a, 1, Len(a) - 1)) ELSE a

RECURSIVE BFromInt(_)
BFromInt(n) ==
    IF n = 0 THEN <<>> ELSE <<n % LimbBase>> \o BFromInt(n \div LimbBase)

RECURSIVE BToIntFrom(_, _)
BToIntFrom(a, i) ==
    IF i > Len(a) THEN 0 ELSE a[i] + LimbBase * BToIntFrom(a, i + 1)

BToInt(a) == BToIntFrom(a, 1)

BLimb(a, i) == IF i <= Len(a) THEN a[i] ELSE 0

RECURSIVE BAddFrom(_, _, _, _)
BAddFrom(a, b, i, c) ==
    IF i > Len(a) /\ i > Len(b)
    THEN IF c = 0 THEN <<>> ELSE <<c>>
    ELSE LET s == BLimb(a, i) + BLimb(b, i) + c
         IN  <<s % LimbBase>> \o BAddFrom(a, b, i + 1, s \div LimbBase)

BAdd(a, b) == BTrim(BAddFrom(a, b, 1, 0))

\* a - b for a >= b
RECURSIVE BSubFrom(_, _, _, _)
BSubFrom(a, b, i, c) ==
    IF i > Len(a) THEN <<>>
    ELSE LET d == a[i] - BLimb(b, i) - c
         IN  IF d < 0 THEN <<d + LimbBase>> \o BSubFrom(a, b, i + 1, 1)
                      ELSE <<d>> \o BSubFrom(a, b, i + 1, 0)

BSub(a, b) == BTrim(BSubFrom(a, b, 1, 0))

\* -1, 0, 1 as a < b, a = b, a > b (both without leading zero limbs)
RECURSIVE BCmpFrom(_, _, _)
BCmpFrom(a, b, i) ==
    IF i = 0 THEN 0
    ELSE IF a[i] < b[i] THEN -1
    ELSE IF a[i] > b[i] THEN 1
    ELSE BCmpFrom(a, b, i - 1)

BCmp(a, b) ==
    IF Len(a) < Len(b) THEN -1
    ELSE IF Len(a) > Len(b) THEN 1
    ELSE BCmpFrom(a, b, Len(a))

\* a * k + c for 0 <= k, c < LimbBase
RECURSIVE BMulSmallFrom(_, _, _, _)
BMulSmallFrom(a, k, i, c) ==
    IF i > Len(a) THEN IF c = 0 THEN <<>> ELSE <<c>>
    ELSE LET p == a[i] * k + c
         IN  <<p % LimbBase>> \o BMulSmallFrom(a, k, i + 1, p \div LimbBase)

BMulSmall(a, k) == BTrim(BMulSmallFrom(a, k, 1, 0))

RECURSIVE BMulFrom(_, _, _)
BMulFrom(a, b, i) ==
    IF i > Len(b) THEN <<>>
    ELSE BAddFrom(BMulSmallFrom(a, b[i], 1, 0), <<0>> \o BMulFrom(a, b, i + 1), 1, 0)

BMul(a, b) == BTrim(BMulFrom(a, b, 1))

RECURSIVE Zeros(_)
Zeros(n) == IF n = 0 THEN <<>> ELSE <<0>> \o Zeros(n - 1)

\* a * 2^k
BShl(a, k) ==
    IF a = <<>> THEN a
    ELSE Zeros(k \div LimbBits) \o BMulSmall(a, 2^(k % LimbBits))

\* floor(a / d) for 1 <= d <= LimbBase
RECURSIVE BDivSmallFrom(_, _, _, _)
BDivSmallFrom(a, d, i, r) ==
    IF i = 0 THEN <<>>
    ELSE LET cur == r * LimbBase + a[i]
         IN  BDivSmallFrom(a, d, i - 1, cur % d) \o <<cur \div d>>

\* floor(a / 2^k)
BShr(a, k) ==
    IF k \div LimbBits >= Len(a) THEN <<>>
    ELSE LET hi == SubSeq(a, k \div LimbBits + 1, Len(a))
         IN  BTrim(BDivSmallFrom(hi, 2^(k % LimbBits), Len(hi), 0))

\* bit i of a, bit 0 the lowest
BBit(a, i) == (BLimb(a, i \div LimbBits + 1) \div 2^(i % LimbBits)) % 2

\* a mod 2^k # 0
BLowNonzero(a, k) ==
    \/ \E i \in 1..Min(k \div LimbBits, Len(a)) : a[i] # 0
    \/ BLimb(a, k \div LimbBits + 1) % 2^(k % LimbBits) # 0

IntBitLen(n) == CHOOSE k \in 0..LimbBits : n < 2^k /\ (k = 0 \/ n >= 2^(k - 1))

BitLen(a) ==
    IF a = <<>> THEN 0 ELSE (Len(a) - 1) * LimbBits + IntBitLen(a[Len(a)])

\* The largest d <= guess with b * d <= R
RECURSIVE BDigitFix(_, _, _)
BDigitFix(R, b, guess) ==
    IF BCmp(BMulSmall(b, guess), R) > 0 THEN BDigitFix(R, b, guess - 1) ELSE guess

\* Long division in base LimbBase: n more quotient limbs of r / b, for r < b
\* and b with its top limb >= LimbBase / 2, so that the digit guessed from
\* the top limbs is at most 2 too large.  q collects the quotient.
\* Returns <<quotient, remainder>>.
RECURSIVE BLongDiv(_, _, _, _)
BLongDiv(r, b, n, q) ==
    IF n = 0 THEN <<q, r>>
    ELSE LET R     == IF r = <<>> THEN r ELSE <<0>> \o r
             top   == BLimb(R, Len(b) + 1) * LimbBase + BLimb(R, Len(b))
             guess == Min(LimbBase - 1, top \div b[Len(b)])
             d     == BDigitFix(R, b, guess)
         IN  BLongDiv(BSub(R, BMulSmall(b, d)), b, n - 1, <<d>> \o q)

(***************************************************************************)
(* binary64: [neg, m, e] is (-1)^neg * m * 2^e with m a 53-bit significand *)
(* (2^52 <= m < 2^53), or m = <<>> for zero.  The magnitudes that occur    *)
(* are far from the overflow and subnormal ranges.                         *)
(***************************************************************************)
Precision == 53

FZero == [neg |-> FALSE, m |-> <<>>, e |-> 0]

\* (-1)^neg * M * 2^e with M moved up by k bits
FShift(neg, M, e, k) == [neg |-> neg, m |-> BShl(M, k), e |-> e - k]

\* the significand m1 = q + 1 may have reached 2^53
FCarry(neg, m1, e) ==
    IF BitLen(m1) > Precision
    THEN [neg |-> neg, m |-> BShr(m1, 1), e |-> e + 1]
    ELSE [neg |-> neg, m |-> m1, e |-> e]

FRoundUp(neg, q, e, up) ==
    IF up THEN FCarry(neg, BAdd(q, <<1>>), e) ELSE [neg |-> neg, m |-> q, e |-> e]

\* sh = BitLen(M) - Precision bits of M are dropped; the result goes up when
\* the first of them is 1 and a later one, the sticky bit or the last kept is
FRoundAt(neg, M, e, sticky, sh) ==
    IF M = <<>> THEN FZero
    ELSE IF sh <= 0 THEN FShift(neg, M, e, -sh)
    ELSE FRoundUp(neg, BShr(M, sh), e + sh,
                  /\ BBit(M, sh - 1) = 1
                  /\ (sticky \/ BLowNonzero(M, sh - 1) \/ BBit(M, sh) = 1))

\* The double nearest to (-1)^neg * (M + f) * 2^e, where 0 < f < 1 if sticky
\* and f = 0 otherwise; ties go to the even significand.
FRound(neg, M, e, sticky) == FRoundAt(neg, M, e, sticky, BitLen(M) - Precision)

\* float(n) for an int n, |n| < 2^31
FFromInt(n) == FRound(n < 0, BFromInt(IF n < 0 THEN -n ELSE n), 0, FALSE)

FNeg(a) == IF a.m = <<>> THEN a ELSE [a EXCEPT !.neg = ~a.neg]

FMul(a, b) ==
    IF a.m = <<>> \/ b.m = <<>> THEN FZero
    ELSE FRound(a.neg # b.neg, BMul(a.m, b.m), a.e + b.e, FALSE)

\* the quotient bits qr[1] under the integer bit, and the remainder qr[2]
FDivQuot(neg, qr, first, e) ==
    FRound(neg, BTrim(qr[1] \o (IF first THEN <<1>> ELSE <<>>)), e, qr[2] # <<>>)

FDivFrom(neg, A, B, e, first) ==
    FDivQuot(neg, BLongDiv(IF first THEN BSub(A, B) ELSE A, B, 4, <<>>), first, e)

\* a / b, b # 0.  Both significands are shifted to fill their top limb; the
\* quotient gets its integer bit and 60 more bits, the remainder is the
\* sticky bit.
FDiv(a, b) ==
    IF a.m = <<>> THEN FZero
    ELSE FDivFrom(a.neg # b.neg,
                  BShl(a.m, 4 * LimbBits - Precision), BShl(b.m, 4 * LimbBits - Precision),
                  a.e - b.e - 4 * LimbBits,
                  BCmp(a.m, b.m) >= 0)

\* A * 2^e with the sign aneg plus B * 2^e with the sign bneg; c compares A and B
FAddSigned(aneg, A, bneg, B, e, c) ==
    FRound(IF c >= 0 THEN aneg ELSE bneg,
           IF aneg = bneg THEN BAdd(A, B) ELSE IF c >= 0 THEN BSub(A, B) ELSE BSub(B, A),
           e, FALSE)

FAddAligned(aneg, A, bneg, B, e) == FAddSigned(aneg, A, bneg, B, e, BCmp(A, B))

\* a + b: exact at the smaller exponent, then rounded
FAdd(a, b) ==
    IF a.m = <<>> THEN b
    ELSE IF b.m = <<>> THEN a
    ELSE FAddAligned(a.neg, BShl(a.m, a.e - Min(a.e, b.e)),
                     b.neg, BShl(b.m, b.e - Min(a.e, b.e)), Min(a.e, b.e))

FSub(a, b) == FAdd(a, FNeg(b))

\* a < b: by sign, then by exponent and significand
FLess(a, b) ==
    LET magLess(u, v) ==
            /\ v.m # <<>>
            /\ \/ u.m = <<>>
               \/ u.e < v.e
               \/ u.e = v.e /\ BCmp(u.m, v.m) < 0
        aneg == a.neg /\ a.m # <<>>
        bneg == b.neg /\ b.m # <<>>
    IN  IF aneg # bneg THEN aneg
        ELSE IF aneg THEN magLess(b, a) ELSE magLess(a, b)

Signed(neg, n) == IF neg THEN -n ELSE n

\* int(a): truncation toward zero
FTrunc(a) ==
    IF a.m = <<>> THEN 0
    ELSE Signed(a.neg, BToInt(IF a.e >= 0 THEN BShl(a.m, a.e) ELSE BShr(a.m, -a.e)))

\* round(a): the nearest int, ties to the even one
FRoundInt(a) ==
    IF a.m = <<>> \/ a.e >= 0 THEN FTrunc(a)
    ELSE Signed(a.neg,
                BToInt(BShr(a.m, -a.e))
                + (IF /\ BBit(a.m, -a.e - 1) = 1
                      /\ (BLowNonzero(a.m, -a.e - 1) \/ BBit(a.m, -a.e) = 1)
                   THEN 1 ELSE 0))

(***************************************************************************)
(* Bounds of the model and the inputs drawn in Init.                       *)
(***************************************************************************)
MaxSrc == 22        \* height and width of the sources given to resize_pixels
MaxWidth == 22      \* new_width runs over 0..MaxWidth
MaxDitherH == 2     \* the matrices given to dither_pixels have
MaxDitherW == 3     \*   up to MaxDitherH rows of up to MaxDitherW samples

Tools == {"image", "video"}

\* the default of charset, and what the CLI's "simple" stands for
SimpleCharset == << " ", ".", ":", "-", "=", "+", "*", "#", "%", "@" >>

\* what the CLI's "dense" stands for; its 4th glyph, the backquote, cannot be
\* written in a TLA+ string and is spelled out
DenseCharset ==
    << " ", ".", "'", "backquote", "^", "\"", ",", ":", ";", "I",
       "l", "!", "i", "~", "+", "_", "-", "?", "]", "[",
       "}", "{", "1", ")", "(", "|", "\\", "/", "*", "t",
       "f", "j", "r", "x", "n", "c", "z", "X", "Y", "U",
       "J", "C", "L", "Q", "0", "O", "Z", "m", "w", "q",
       "p", "d", "b", "k", "h", "a", "o", "*", "#", "M",
       "W", "&", "8", "%", "B", "@", "$" >>

Charsets ==
    {<<>>, <<"a">>, <<"a", "b">>, <<"a", "b", "c", "d", "e", "f">>, SimpleCharset, DenseCharset}

\* gamma: 0 stands for every gamma <= 0 (no correction), 1 and 2 for 1.0 and 2.0
Gammas == {0, 1, 2}

\* ratio as <<p, q>>: the double nearest to p/q, which is what the literal reads as
DefaultRatio == <<43, 100>>
Ratios == {DefaultRatio, <<1, 1>>, <<0, 1>>}

\* levels given to dither_pixels when it is called on its own
DitherLevels == {0, 1, 2, 3, 10, 67, 115}

Ramp(h, w) == Tup([i \in 1..h |-> Tup([j \in 1..w |-> ((i - 1) * w + (j - 1)) % 256])])
Flat(h, w, v) == Tup([i \in 1..h |-> Tup([j \in 1..w |-> v])])

Scenario == << <<0, 255>>, <<128, 128>> >>

\* matrices with no sample: no row, one empty row, two empty rows
EmptySources == {<<>>, << <<>> >>, << <<>>, <<>> >>}

ResizeSources ==
    EmptySources \cup {Scenario}
        \cup {Ramp(k, k) : k \in 1..MaxSrc} \cup {Ramp(1, k) : k \in 1..MaxSrc}

\* a where row + column is even, b elsewhere
Checker(h, w, a, b) ==
    Tup([i \in 1..h |-> Tup([j \in 1..w |-> IF (i + j) % 2 = 0 THEN a ELSE b])])

\* flat matrices, and checkers whose diffused error leaves [0, 255] at a neighbour
DitherSources ==
    EmptySources \cup {Scenario}
        \cup {Flat(h, w, v) : h \in 1..MaxDitherH, w \in 1..MaxDitherW,
                              v \in {0, 1, 11, 100, 128, 255}}
        \cup {Checker(h, w, c[1], c[2]) : h \in 1..MaxDitherH, w \in 1..MaxDitherW,
                                          c \in {<<100, 255>>, <<200, 0>>}}

\* one row with every sample value, 0..255 in order
AllSamples == Ramp(1, 256)

MapSources ==
    EmptySources \cup {Scenario, AllSamples, Ramp(2, 3)} \cup {Flat(2, 2, v) : v \in {11, 100}}

FrameSources == {<<>>, Scenario, <<<<0, 255, 128>>>>, Flat(2, 3, 100)}
FrameWidths == {0, 1, 2, 3}

MaxFrames == 2      \* a capture source delivers up to MaxFrames frames

RECURSIVE SeqsUpTo(_, _)
SeqsUpTo(S, n) ==
    IF n = 0 THEN {<<>>}
    ELSE SeqsUpTo(S, n - 1) \cup {<<e>> \o q : e \in S, q \in SeqsUpTo(S, n - 1)}

\* what frame_to_pixels or process_gray makes of the frames the capture delivers
Captures == SeqsUpTo(FrameSources, MaxFrames)

\* the functions that run resize_pixels and then map_to_ascii on its result:
\* one pass ("frame"), or the loop of stream_video_ascii and stream_webcam_ascii
Pipelines == {"frame", "stream"}

(***************************************************************************)
(* resize_pixels                                                           *)
(***************************************************************************)
\* the float a ratio <<p, q>> stands for
RatioFloat(r) == FDiv(FFromInt(r[1]), FFromInt(r[2]))

\* max(1, int(orig_h * scale * ratio)) with scale = new_width / float(orig_w);
\* the image tool has the literal 0.43 where the video tool has its parameter
new_height_of(t, orig_h, orig_w, width, r) ==
    Max(1, FTrunc(FMul(FMul(FFromInt(orig_h), FDiv(FFromInt(width), FFromInt(orig_w))),
                       RatioFloat(IF t = "image" THEN DefaultRatio ELSE r))))

\* min(orig - 1, int(i / new * orig)): the source row of destination row i,
\* and the source column of destination column i
src_index(i, new, orig) ==
    Min(orig - 1, FTrunc(FMul(FDiv(FFromInt(i), FFromInt(new)), FFromInt(orig))))

\* src_index for the sizes the model draws, computed once
SrcIndexTable ==
    Tup([new \in 1..MaxWidth |->
        Tup([orig \in 1..MaxSrc |->
            Tup([k \in 1..new |-> src_index(k - 1, new, orig)])])])

\* the source indices of the new destination rows (columns): src_index(0..new-1)
src_indices(new, orig) ==
    IF new <= MaxWidth /\ orig <= MaxSrc THEN SrcIndexTable[new][orig]
    ELSE Tup([k \in 1..new |-> src_index(k - 1, new, orig)])

\* the two loops, given the source rows and columns of the destination
resized_from(px, rows, cols) ==
    Tup([i \in 1..Len(rows) |-> Tup([j \in 1..Len(cols) |-> px[rows[i] + 1][cols[j] + 1]])])

resized_to(px, orig_h, orig_w, width, nh) ==
    resized_from(px, src_indices(nh, orig_h), src_indices(width, orig_w))


\* resize_pixels with the two guards in the other order
resize_pixels_empty_first(t, px, width, r) ==
    IF Len(px) = 0 \/ Len(px[1]) = 0 THEN [error |-> "none", value |-> <<>>]
    ELSE IF width < 1 THEN [error |-> "new_width minimal 1", value |-> <<>>]
    ELSE [error |-> "none",
          value |-> resized_to(px, Len(px), Len(px[1]), width,
                               new_height_of(t, Len(px), Len(px[1]), width, r))]

\* [error, value]: the ValueError raised ("none" if none) and the matrix returned
resize_pixels(t, px, width, r) ==
    IF width < 1 THEN [error |-> "new_width minimal 1", value |-> <<>>]
    ELSE IF Len(px) = 0 \/ Len(px[1]) = 0 THEN [error |-> "none", value |-> <<>>]
    ELSE [error |-> "none",
          value |-> resized_to(px, Len(px), Len(px[1]), width,
                               new_height_of(t, Len(px), Len(px[1]), width, r))]

(***************************************************************************)
(* dither_pixels                                                           *)
(***************************************************************************)
\* step = 255.0 / float(levels - 1)
step_of(lv) == FDiv(FFromInt(255), FFromInt(lv - 1))


\* clamp without its upper limit
clamp_no_upper(v) == IF FLess(v, FZero) THEN 0 ELSE FTrunc(v)

clamp(v) ==
    IF FLess(v, FZero) THEN 0
    ELSE IF FLess(FFromInt(255), v) THEN 255
    ELSE FTrunc(v)

\* round(old / step) * step
quantized_by(old, step) == FMul(FFromInt(FRoundInt(FDiv(FFromInt(old), step))), step)

\* new = round(old / step) * step
quantized(old, lv) == quantized_by(old, step_of(lv))

\* err * k / 16
err_share(err, k) == FDiv(FMul(err, FFromInt(k)), FFromInt(16))

\* if there: out[row][col] = clamp(out[row][col] + err * k / 16), indices from 0
diffuse(o, there, row, col, err, k) ==
    IF there
    THEN [o EXCEPT ![row + 1][col + 1] = clamp(FAdd(FFromInt(@), err_share(err, k)))]
    ELSE o


\* diffuse_all with the weights of the two cells below and below-left exchanged
diffuse_all_swapped(o, j, i, err) ==
    diffuse(diffuse(diffuse(diffuse(o,
        i + 1 < Len(o[1]), j, i + 1, err, 7),
        j + 1 < Len(o) /\ i - 1 >= 0, j + 1, i - 1, err, 5),
        j + 1 < Len(o), j + 1, i, err, 3),
        j + 1 < Len(o) /\ i + 1 < Len(o[1]), j + 1, i + 1, err, 1)

\* the four neighbours of (i, j) that are inside the matrix take their share
diffuse_all(o, j, i, err) ==
    diffuse(diffuse(diffuse(diffuse(o,
        i + 1 < Len(o[1]), j, i + 1, err, 7),
        j + 1 < Len(o) /\ i - 1 >= 0, j + 1, i - 1, err, 3),
        j + 1 < Len(o), j + 1, i, err, 5),
        j + 1 < Len(o) /\ i + 1 < Len(o[1]), j + 1, i + 1, err, 1)

\* out[y][x] = clamp(new); err = old - new; then the neighbours
dither_write(o, j, i, old, new) ==
    diffuse_all([o EXCEPT ![j + 1][i + 1] = clamp(new)], j, i, FSub(FFromInt(old), new))

\* the body of the loops for the pixel in row j, column i (from 0)
dither_step(o, j, i, lv) == dither_write(o, j, i, o[j + 1][i + 1], quantized(o[j + 1][i + 1], lv))

\* h == 0 or w == 0 or levels < 2
dither_skips(px, lv) == Len(px) = 0 \/ Len(px[1]) = 0 \/ lv < 2

\* a skip that returns [], as resize_pixels does for an empty source
skip_result_blank(px) == <<>>

\* return pixels: what dither_pixels returns when it skips
skip_result(px) == px

(***************************************************************************)
(* map_to_ascii                                                            *)
(***************************************************************************)
\* the guard letting a one-glyph charset through
charset_too_short_by_one(cs) == Len(cs) < 1

\* if not charset or len(charset) < 2
charset_too_short(cs) == Len(cs) < 2


\* invert without effect
inverted_never(val, inv) == val

\* if invert: val = 1.0 - val
inverted(val, inv) == IF inv THEN FSub(FFromInt(1), val) ELSE val

\* if gamma > 0: val = pow(val, gamma), for gamma 1.0 and 2.0
gamma_corrected(val, g) == IF g <= 0 \/ g = 1 THEN val ELSE FMul(val, val)

\* idx brought into 0..n-1
clamp_index(idx, n) == IF idx < 0 THEN 0 ELSE IF idx >= n THEN n - 1 ELSE idx


\* glyph_index with round() where the code has int()
glyph_index_rounded(v, n, g, inv) ==
    clamp_index(
        FRoundInt(FMul(gamma_corrected(inverted(FDiv(FFromInt(v), FFromInt(255)), inv), g),
                       FFromInt(n - 1))),
        n)


\* glyph_index with val = v / 256
glyph_index_256(v, n, g, inv) ==
    clamp_index(
        FTrunc(FMul(gamma_corrected(inverted(FDiv(FFromInt(v), FFromInt(256)), inv), g),
                    FFromInt(n - 1))),
        n)

\* idx of a sample v for a charset of n glyphs
glyph_index(v, n, g, inv) ==
    clamp_index(
        FTrunc(FMul(gamma_corrected(inverted(FDiv(FFromInt(v), FFromInt(255)), inv), g),
                    FFromInt(n - 1))),
        n)

\* glyph_index for the charsets and gammas the model draws, computed once
GlyphIndexTable ==
    Fcn([n \in {Len(c) : c \in Charsets} \ {0, 1} |->
        Fcn([g \in Gammas |-> Fcn([inv \in BOOLEAN |->
            Tup([k \in 1..256 |-> glyph_index(k - 1, n, g, inv)])])])])

\* the idx of every sample of a row
row_indices(row, n, g, inv) ==
    IF n \in DOMAIN GlyphIndexTable /\ g \in Gammas
    THEN Tup([j \in 1..Len(row) |-> GlyphIndexTable[n][g][inv][row[j] + 1]])
    ELSE Tup([j \in 1..Len(row) |-> glyph_index(row[j], n, g, inv)])

\* the idx of every sample of the matrix
index_rows(wk, cs, g, inv) ==
    Tup([i \in 1..Len(wk) |-> row_indices(wk[i], Len(cs), g, inv)])


\* lines.append(...) after the loop over the rows instead of in it: the last row only
ascii_lines_last_row(idx, cs) ==
    IF idx = <<>> THEN <<>>
    ELSE << Tup([j \in 1..Len(idx[Len(idx)]) |-> cs[idx[Len(idx)][j] + 1]]) >>

\* the lines: one per row, the glyphs charset[idx] in column order
ascii_lines(idx, cs) ==
    Tup([i \in 1..Len(idx) |-> Tup([j \in 1..Len(idx[i]) |-> cs[idx[i][j] + 1]])])

(***************************************************************************)
(* One call per behaviour.  fn is the function the caller invokes:         *)
(*   "resize_pixels", "dither_pixels", "map_to_ascii", or                  *)
(*   "frame": resize_pixels and then map_to_ascii on its result, as in     *)
(*            image_to_ascii and in the loops of stream_video_ascii and    *)
(*            stream_webcam_ascii.                                         *)
(* pc is the place reached in the call:                                    *)
(*   "resize" before resize_pixels     "map"    before map_to_ascii        *)
(*   "dither" before dither_pixels     "scan"   in the loops of dither     *)
(*   "render" before the loop of map_to_ascii that builds the lines        *)
(*   "done"   the call has returned    "raised" a ValueError has left it   *)
(***************************************************************************)
VARIABLES
    fn, tool, pc,
    pixels, new_width, ratio, charset, gamma, invert, dither, levels,  \* the arguments
    resized,    \* what resize_pixels returned
    out, y, x,  \* dither_pixels: its copy of the matrix and the pixel visited next
    work,       \* what dither_pixels returned; in map_to_ascii, the matrix rendered
    indices,    \* map_to_ascii: the idx computed for every sample
    lines,      \* what map_to_ascii returned
    error,      \* the message of the ValueError raised, "none" if none
    returned,   \* the list dither_pixels returned last: "pixels" (its argument),
                \*   "out" (its copy), "none" before it returned
    capture,    \* the streaming loop: the frames cap.read() has still to deliver,
    nread,      \*   the number of frames read,
    printed     \*   and the texts given to print_frame

vars == <<fn, tool, pc, pixels, new_width, ratio, charset, gamma, invert, dither,
          levels, resized, out, y, x, work, indices, lines, error, returned,
          capture, nread, printed>>

stream == <<capture, nread, printed>>

args == <<fn, tool, pixels, new_width, ratio, charset, gamma, invert, dither>>

NoResults ==
    /\ resized = <<>> /\ out = <<>> /\ y = 0 /\ x = 0
    /\ work = <<>> /\ indices = <<>> /\ lines = <<>> /\ error = "none"
    /\ returned = "none" /\ nread = 0 /\ printed = <<>>

InitResize ==
    /\ fn = "resize_pixels" /\ pc = "resize"
    /\ tool \in Tools
    /\ pixels \in ResizeSources
    /\ new_width \in 0..MaxWidth
    /\ ratio \in (IF tool = "image" THEN {DefaultRatio} ELSE Ratios)
    /\ charset = SimpleCharset /\ gamma = 1 /\ invert = FALSE /\ dither = FALSE
    /\ levels = 0
    /\ capture = <<>>

InitDither ==
    /\ fn = "dither_pixels" /\ pc = "dither"
    /\ tool = "video"
    /\ pixels \in DitherSources
    /\ levels \in DitherLevels
    /\ new_width = 1 /\ ratio = DefaultRatio
    /\ charset = SimpleCharset /\ gamma = 1 /\ invert = FALSE /\ dither = TRUE
    /\ capture = <<>>

InitMap ==
    /\ fn = "map_to_ascii" /\ pc = "map"
    /\ tool = "video"
    /\ pixels \in MapSources
    /\ charset \in Charsets
    /\ gamma \in Gammas
    /\ invert \in BOOLEAN
    /\ dither \in BOOLEAN
    /\ levels = 0
    /\ new_width = 1 /\ ratio = DefaultRatio
    /\ capture = <<>>

InitFrame ==
    /\ fn = "frame" /\ pc = "resize"
    /\ tool \in Tools
    /\ pixels \in FrameSources
    /\ new_width \in FrameWidths
    /\ ratio \in (IF tool = "image" THEN {DefaultRatio} ELSE Ratios)
    /\ charset \in Charsets
    /\ gamma \in {1, 2}
    /\ invert \in BOOLEAN
    /\ dither \in BOOLEAN
    /\ levels = 0
    /\ capture = <<>>

\* stream_video_ascii and stream_webcam_ascii with the capture opened, before
\* the loop; resize_pixels is called without ratio there, so with its default
InitStream ==
    /\ fn = "stream" /\ pc = "read"
    /\ tool = "video"
    /\ capture \in Captures
    /\ pixels = <<>>
    /\ new_width \in FrameWidths
    /\ ratio = DefaultRatio
    /\ charset \in Charsets
    /\ gamma = 1 /\ invert = FALSE
    /\ dither \in BOOLEAN
    /\ levels = 0

Init == (InitResize \/ InitDither \/ InitMap \/ InitFrame \/ InitStream) /\ NoResults

\* ret, frame = cap.read() with ret true, and the frame made a matrix
ReadFrame ==
    /\ fn = "stream" /\ pc = "read"
    /\ capture # <<>>
    /\ pixels' = Head(capture)
    /\ capture' = Tail(capture)
    /\ nread' = nread + 1
    /\ pc' = "resize"
    /\ UNCHANGED <<fn, tool, new_width, ratio, charset, gamma, invert, dither, levels,
                   resized, out, y, x, work, indices, lines, error, returned, printed>>

\* cap.read() with ret false: break, and cap.release()
EndStream ==
    /\ fn = "stream" /\ pc = "read"
    /\ capture = <<>>
    /\ pc' = "closed"
    /\ UNCHANGED <<args, stream, levels, resized, out, y, x, work, indices, lines, error,
                   returned>>

\* print_frame(lines), and back to the head of the loop
PrintFrame ==
    /\ fn = "stream" /\ pc = "done"
    /\ printed' = Append(printed, lines)
    /\ pc' = "read"
    /\ UNCHANGED <<args, capture, nread, levels, resized, out, y, x, work, indices, lines,
                   error, returned>>

\* resize_pixels(pixels, new_width[, ratio])
Resize ==
    /\ pc = "resize"
    /\ LET r == resize_pixels(tool, pixels, new_width, ratio)
       IN  /\ error' = r.error
           /\ resized' = r.value
           /\ pc' = IF r.error # "none" THEN "raised"
                    ELSE IF fn \in Pipelines THEN "map" ELSE "done"
    /\ UNCHANGED <<args, stream, levels, returned, out, y, x, work, indices, lines>>

\* the matrix map_to_ascii is given
MapArg == IF fn \in Pipelines THEN resized ELSE pixels

\* map_to_ascii up to the loop: the two guards, work = pixels, and if dither the
\* call dither_pixels(work, len(charset))
MapEnter ==
    /\ pc = "map"
    /\ IF MapArg = <<>>
       THEN pc' = "done" /\ lines' = <<>> /\ UNCHANGED <<work, error, levels>>
       ELSE IF charset_too_short(charset)
       THEN pc' = "raised" /\ error' = "charset minimal 2 karakter"
            /\ UNCHANGED <<work, lines, levels>>
       ELSE /\ work' = MapArg
            /\ pc' = IF dither THEN "dither" ELSE "render"
            /\ levels' = IF dither THEN Len(charset) ELSE levels
            /\ UNCHANGED <<lines, error>>
    /\ UNCHANGED <<args, stream, returned, resized, out, y, x, indices>>


\* dither_pixels called on the matrix the frame came with
DitherArg_source == pixels

\* the matrix dither_pixels is given
DitherArg == IF fn = "dither_pixels" THEN pixels ELSE work

\* where dither_pixels returns to
AfterDither == IF fn = "dither_pixels" THEN "done" ELSE "render"

\* dither_pixels up to the loops: return pixels, or out = [row[:] for row in pixels]
DitherEnter ==
    /\ pc = "dither"
    /\ IF dither_skips(DitherArg, levels)
       THEN /\ work' = skip_result(DitherArg) /\ returned' = "pixels"
            /\ pc' = AfterDither /\ UNCHANGED <<out, y, x>>
       ELSE /\ out' = DitherArg /\ y' = 0 /\ x' = 0
            /\ pc' = "scan" /\ UNCHANGED <<work, returned>>
    /\ UNCHANGED <<args, stream, levels, resized, indices, lines, error>>

\* one pass of the body of the loops, for the pixel (x, y)
DitherStep ==
    /\ pc = "scan"
    /\ y < Len(out)
    /\ out' = dither_step(out, y, x, levels)
    /\ IF x + 1 < Len(out[1]) THEN x' = x + 1 /\ y' = y
                              ELSE x' = 0 /\ y' = y + 1
    /\ UNCHANGED <<args, stream, levels, returned, pc, resized, work, indices, lines, error>>

\* return out
DitherReturn ==
    /\ pc = "scan"
    /\ y = Len(out)
    /\ work' = out /\ returned' = "out"
    /\ pc' = AfterDither
    /\ UNCHANGED <<args, stream, levels, resized, out, y, x, indices, lines, error>>

\* the loop of map_to_ascii over work, and return lines
Render ==
    /\ pc = "render"
    /\ indices' = index_rows(work, charset, gamma, invert)
    /\ lines' = ascii_lines(indices', charset)
    /\ pc' = "done"
    /\ UNCHANGED <<args, stream, levels, returned, resized, out, y, x, work, error>>

Next ==
    \/ Resize \/ MapEnter \/ DitherEnter \/ DitherStep \/ DitherReturn \/ Render
    \/ ReadFrame \/ PrintFrame \/ EndStream

Spec == Init /\ [][Next]_vars

(***************************************************************************)
(* Vocabulary of the properties                                            *)
(***************************************************************************)
\* a matrix of height 0 or width 0
IsEmpty(m) == Len(m) = 0 \/ Len(m[1]) = 0

Cells(m) == UNION {{<<i, j>> : j \in 1..Len(m[i])} : i \in 1..Len(m)}

At(m, c) == m[c[1]][c[2]]

InRange(m) == \A c \in Cells(m) : At(m, c) \in 0..255

RECURSIVE SumSeq(_)
SumSeq(q) == IF q = <<>> THEN 0 ELSE Head(q) + SumSeq(Tail(q))

\* the sum of all samples
Total(m) == SumSeq([i \in 1..Len(m) |-> SumSeq(m[i])])

Abs(n) == IF n < 0 THEN -n ELSE n

\* render was called: on its own, or on what resample returned for a frame
RenderCalled == fn \in {"map_to_ascii", "frame"} /\ error # "new_width minimal 1"

\* render has returned or raised
RenderOver == RenderCalled /\ pc \in {"done", "raised"}

\* resample was called and has returned or raised
ResampleOver == fn \in {"resize_pixels", "frame"} /\ pc # "resize"

\* the end-to-end scenario, through the video tool whose resampler takes the ratio
ScenarioCall ==
    /\ fn = "frame" /\ tool = "video"
    /\ pixels = Scenario /\ new_width = 2 /\ ratio = <<1, 1>>
    /\ charset = SimpleCharset /\ gamma = 1 /\ ~invert /\ ~dither

(***************************************************************************)
(* C1                                                                      *)
(***************************************************************************)
\* C1 as stated: in the end-to-end scenario resample returns the same 2x2
\* matrix and render returns the two lines " @" and "++".
C1_ScenarioClaimed ==
    ScenarioCall /\ pc = "done" =>
        resized = Scenario /\ lines = << <<" ", "@">>, <<"+", "+">> >>

\* C1 amended: in the end-to-end scenario resample returns the same 2x2
\* matrix and render returns the two lines " @" and "==": the sample 128 gets
\* the index int(128/255 * 9) = 4.
C1_Scenario ==
    ScenarioCall /\ pc = "done" =>
        resized = Scenario /\ lines = << <<" ", "@">>, <<"=", "=">> >>

C1_ScenarioRendered ==
    ScenarioCall /\ pc = "done" /\ indices = << <<0, 9>>, <<4, 4>> >>

(***************************************************************************)
(* C2                                                                      *)
(***************************************************************************)
\* C2 as stated: with a palette of fewer than 2 glyphs render fails for every
\* matrix, an empty one included, and never returns a result.
C2_ShortPaletteClaimed ==
    RenderCalled /\ Len(charset) < 2 /\ pc # "resize" /\ pc # "map" =>
        pc = "raised" /\ error = "charset minimal 2 karakter"

\* C2 amended: with a palette of fewer than 2 glyphs render fails for every
\* matrix that has at least one row (rows of length zero included) and never
\* returns a result for it; for the matrix with no rows it returns no lines
\* and does not fail.
C2_ShortPalette ==
    RenderCalled /\ Len(charset) < 2 /\ pc # "resize" /\ pc # "map" =>
        IF MapArg = <<>>
        THEN pc = "done" /\ lines = <<>> /\ error = "none"
        ELSE pc = "raised" /\ error = "charset minimal 2 karakter" /\ lines = <<>>

C2_ShortPaletteRaised ==
    /\ fn = "map_to_ascii" /\ pc = "raised"
    /\ pixels = << <<>> >> /\ Len(charset) = 1
    /\ error = "charset minimal 2 karakter"

(***************************************************************************)
(* C3                                                                      *)
(***************************************************************************)
\* C3: given a palette of at least 2 glyphs, render returns zero lines, and
\* does not fail, for every empty matrix: one of height 0 or of width 0, so
\* also one of one or more rows of length zero.
C3_EmptyRendersNothing ==
    RenderOver /\ Len(charset) >= 2 /\ IsEmpty(MapArg) =>
        pc = "done" /\ error = "none" /\ lines = <<>>

(***************************************************************************)
(* C4                                                                      *)
(***************************************************************************)
\* C4 as stated: for fixed gamma, invert and palette, of two samples of the
\* rendered matrix the smaller one never gets the larger palette index.
C4_MonotoneClaimed ==
    RenderCalled /\ pc = "done" =>
        \A a, b \in Cells(work) :
            At(work, a) <= At(work, b) => At(indices, a) <= At(indices, b)

\* C4 amended: for fixed gamma and palette, with invert false the smaller of
\* two samples never gets the larger palette index, and with invert true it
\* never gets the smaller one.
C4_Monotone ==
    RenderCalled /\ pc = "done" =>
        \A a, b \in Cells(work) :
            At(work, a) <= At(work, b) =>
                IF invert THEN At(indices, a) >= At(indices, b)
                          ELSE At(indices, a) <= At(indices, b)

C4_InvertedRamp ==
    /\ fn = "map_to_ascii" /\ pc = "done"
    /\ work = AllSamples /\ invert /\ gamma = 2 /\ charset = DenseCharset
    /\ indices[1][1] = Len(charset) - 1 /\ indices[1][256] = 0

(***************************************************************************)
(* C5                                                                      *)
(***************************************************************************)
\* C5: for a non-empty source, targetWidth >= 1 and aspectRatio p/q, resample
\* returns rows of exactly targetWidth samples and
\* max(1, floor(sourceHeight * targetWidth / sourceWidth * p/q)) of them.
C5_ShapeClaimed ==
    fn = "resize_pixels" /\ pc = "done" /\ ~IsEmpty(pixels) =>
        /\ \A i \in 1..Len(resized) : Len(resized[i]) = new_width
        /\ Len(resized) =
               Max(1, (Len(pixels) * new_width * ratio[1]) \div (Len(pixels[1]) * ratio[2]))

(***************************************************************************)
(* C6                                                                      *)
(***************************************************************************)
\* C6: every sample (x, y) resample returns is the source sample at
\* (min(sourceWidth - 1, floor(x * sourceWidth / targetWidth)),
\*  min(sourceHeight - 1, floor(y * sourceHeight / targetHeight))).
C6_SelectionClaimed ==
    fn = "resize_pixels" /\ pc = "done" /\ ~IsEmpty(pixels) =>
        \A c \in Cells(resized) :
            At(resized, c) =
                pixels[Min(Len(pixels) - 1, ((c[1] - 1) * Len(pixels)) \div Len(resized)) + 1]
                      [Min(Len(pixels[1]) - 1, ((c[2] - 1) * Len(pixels[1])) \div new_width) + 1]

(***************************************************************************)
(* C7                                                                      *)
(***************************************************************************)
\* C7: resample fails whenever targetWidth < 1, for every source, an empty
\* one included; an empty source with targetWidth >= 1 gives the empty
\* matrix and no failure.
C7_WidthChecked ==
    ResampleOver =>
        IF new_width < 1
        THEN pc = "raised" /\ error = "new_width minimal 1" /\ resized = <<>>
        ELSE error # "new_width minimal 1"
             /\ (IsEmpty(pixels) => pc # "raised" /\ resized = <<>>)

C7_EmptyRejected ==
    /\ fn = "resize_pixels" /\ pc = "raised"
    /\ pixels = << <<>> >> /\ new_width = 0
    /\ error = "new_width minimal 1"

(***************************************************************************)
(* C8                                                                      *)
(***************************************************************************)
\* C8: every cell of dither's working matrix is in 0..255 after every step
\* of the scan, and so is every sample of the matrix it returns.
C8_Bounded == InRange(out) /\ InRange(work)

\* the error 100 of the first pixel would take its neighbour to 298
C8_ClampReached ==
    /\ fn = "dither_pixels" /\ pc = "done"
    /\ pixels = Checker(1, 2, 100, 255) /\ levels = 2
    /\ work = << <<0, 255>> >>

(***************************************************************************)
(* C9                                                                      *)
(***************************************************************************)
\* C9: for a flat matrix of value v and levels >= 2, the mean of what dither
\* returns is within 255 / (levels - 1) of v.
C9_BrightnessClaimed ==
    /\ fn = "dither_pixels" /\ pc = "done" /\ levels >= 2
    /\ ~IsEmpty(pixels) /\ pixels = Flat(Len(pixels), Len(pixels[1]), pixels[1][1])
    => Abs(Total(work) - Total(pixels)) * (levels - 1) <= 255 * Len(pixels) * Len(pixels[1])

(***************************************************************************)
(* C10                                                                     *)
(***************************************************************************)
\* C10: dither returns a matrix equal to its argument, sample for sample,
\* whenever levels < 2, and whenever the argument is empty (height 0 or
\* width 0), then for any levels.
C10_NoOp ==
    fn = "dither_pixels" /\ pc = "done" /\ (levels < 2 \/ IsEmpty(pixels)) =>
        work = pixels

C10_Skipped ==
    /\ fn = "dither_pixels" /\ pc = "done"
    /\ levels = 1 /\ pixels = Scenario /\ work = Scenario

(***************************************************************************)
(* C11                                                                     *)
(***************************************************************************)
\* C11: with gamma = 1 and invert = true, the glyph rendered for a sample s
\* is the glyph that invert = false gives the sample 255 - s, for every
\* palette of at least 2 glyphs.
C11_InvertSymmetryClaimed ==
    RenderCalled /\ pc = "done" /\ invert /\ gamma = 1 /\ ~dither =>
        \A c \in Cells(work) :
            At(lines, c) = charset[glyph_index(255 - At(work, c), Len(charset), 1, FALSE) + 1]

(***************************************************************************)
(* C12                                                                     *)
(***************************************************************************)
\* C12: with the 10-glyph palette, gamma = 1 and invert = false the sample 0
\* is rendered as ' ' and the sample 255 as '@'; every palette index computed
\* is in 0..paletteLength-1.
C12_Boundary ==
    RenderCalled /\ pc = "done" =>
        \A c \in Cells(work) :
            /\ At(indices, c) \in 0..(Len(charset) - 1)
            /\ charset = SimpleCharset /\ gamma = 1 /\ ~invert =>
                  /\ At(work, c) = 0 => At(lines, c) = " "
                  /\ At(work, c) = 255 => At(lines, c) = "@"

C12_BothEnds ==
    /\ fn = "map_to_ascii" /\ pc = "done"
    /\ pixels = Scenario /\ charset = SimpleCharset /\ gamma = 1 /\ ~invert /\ ~dither
    /\ lines[1] = <<" ", "@">>

(***************************************************************************)
(* C13                                                                     *)
(***************************************************************************)
\* what one step of a pipeline may do, by the stage it is in
StageStep ==
    /\ pc = "resize" => pc' \in {"map", "raised"}
    /\ pc = "map" =>
          \/ pc' \in {"done", "raised"}
          \/ /\ pc' = IF dither THEN "dither" ELSE "render"
             /\ work' = resized
             /\ dither => levels' = Len(charset)
    /\ pc = "dither" =>
          dither /\ levels = Len(charset) /\ pc' = "scan" /\ out' = resized
    /\ pc = "scan" =>
          /\ dither /\ levels = Len(charset)
          /\ pc' = "scan" \/ (pc' = "render" /\ work' = out)
    /\ pc = "render" =>
          /\ work = IF dither THEN out ELSE resized
          /\ pc' = "done"
          /\ indices' = index_rows(work, charset, gamma, invert)

\* C13: for one frame the stages run in the order resample, dither, glyph
\* quantization; dither runs iff dithering is enabled, with levels equal to
\* the palette length and on the resampled matrix; the quantizer reads the
\* dither output when dithering is enabled and the resample output otherwise.
C13_StageOrder == [][(fn \in Pipelines => StageStep)]_vars

C13_DitheredFrame ==
    /\ fn = "frame" /\ pc = "done" /\ dither
    /\ pixels # resized /\ out # resized /\ work = out
    /\ returned = "out" /\ levels = Len(charset)

(***************************************************************************)
(* C14                                                                     *)
(***************************************************************************)
\* C14: for a non-empty source and a valid configuration the pipeline returns
\* one string per destination row, in the order of the rows, each of exactly
\* targetWidth characters, each a glyph of the palette.
C14_TextShape ==
    fn \in Pipelines /\ pc = "done" /\ ~IsEmpty(pixels) =>
        /\ Len(lines) = Len(resized) /\ Len(lines) >= 1
        /\ \A i \in 1..Len(lines) :
              /\ Len(lines[i]) = new_width
              /\ \A j \in 1..Len(lines[i]) :
                    /\ \E g \in 1..Len(charset) : lines[i][j] = charset[g]
                    /\ lines[i][j] = charset[indices[i][j] + 1]
                    /\ Len(work[i]) = new_width

C14_TwoRows ==
    /\ fn = "frame" /\ pc = "done"
    /\ pixels = Scenario /\ new_width = 2 /\ ratio = <<1, 1>>
    /\ charset = SimpleCharset /\ gamma = 1 /\ invert /\ ~dither
    /\ lines = << <<"@", " ">>, <<"=", "=">> >>

(***************************************************************************)
(* C15                                                                     *)
(***************************************************************************)
\* C15: in the streaming loops a width < 1 or a palette of fewer than 2
\* glyphs is reported before the loop is entered: no frame is read from the
\* capture under such a configuration.
C15_FailFastClaimed ==
    fn = "stream" /\ (new_width < 1 \/ Len(charset) < 2) => nread = 0

(***************************************************************************)
(* C16                                                                     *)
(***************************************************************************)
\* C16: no stage changes the matrix it is given, and dither, also inside
\* render, returns a new matrix, never the list it was given.
C16_FreshResultClaimed ==
    [][(pc # "read" => pixels' = pixels) /\ returned' # "pixels"]_vars

(***************************************************************************)
(* C17                                                                     *)
(***************************************************************************)
\* the weight of the cell dx columns and dy rows from the pixel visited
Weight(dx, dy) ==
    IF dy = 0 /\ dx = 1 THEN 7
    ELSE IF dy = 1 /\ dx = -1 THEN 3
    ELSE IF dy = 1 /\ dx = 0 THEN 5
    ELSE IF dy = 1 /\ dx = 1 THEN 1
    ELSE 0

\* r is nb plus wt/16 of the error of old, cut to an integer and to 0..255.
\* In units of 1 / (16 * (lv - 1)): the error of old is old * (lv - 1) - 255 * k
\* for the level k nearest to old.
TookShare(r, nb, old, wt, lv) ==
    LET D == 16 * (lv - 1)
        k == (2 * old * (lv - 1) + 255) \div 510
        t == D * nb + (old * (lv - 1) - 255 * k) * wt
    IN  IF t < 0 THEN r = 0
        ELSE IF t > 255 * D THEN r = 255
        ELSE D * r <= t /\ t - D * r <= D

\* C17: the scan visits the pixels row by row, left to right; a visit adds
\* 7/16, 3/16, 5/16, 1/16 of the pixel's error to the cells right, below-left,
\* below and below-right that are inside the matrix and changes no other
\* cell, so a pixel visited is never changed again.
C17_RasterScan ==
    [][(pc = "scan" /\ pc' = "scan" /\ <<x, y>>' # <<x, y>> =>
        /\ <<y', x'>> = IF x + 1 < Len(out[1]) THEN <<y, x + 1>> ELSE <<y + 1, 0>>
        /\ \A c \in Cells(out) :
              LET dy == c[1] - 1 - y
                  dx == c[2] - 1 - x
              IN  IF dx = 0 /\ dy = 0 THEN TRUE
                  ELSE IF Weight(dx, dy) = 0 THEN At(out', c) = At(out, c)
                  ELSE TookShare(At(out', c), At(out, c), out[y + 1][x + 1],
                                 Weight(dx, dy), levels))]_vars

C17_ErrorBelow ==
    /\ fn = "dither_pixels" /\ pc = "scan"
    /\ pixels = Flat(2, 3, 100) /\ levels = 2
    /\ y = 0 /\ x = 2
    /\ out = << <<0, 255, 51>>, <<110, 71, 93>> >>

(***************************************************************************)
(* C18                                                                     *)
(***************************************************************************)
\* C18: every sample of the matrix dither returns is one of the levels
\* k * 255 / (levels - 1), k in 0..levels-1: the value written for a pixel is
\* exactly round(old / step) * step.
C18_OnLevelClaimed ==
    fn = "dither_pixels" /\ pc = "done" /\ returned = "out" =>
        \A c \in Cells(work) :
            \E k \in 0..(levels - 1) : At(work, c) * (levels - 1) = 255 * k

(***************************************************************************)
(* C19                                                                     *)
(***************************************************************************)
\* C19: with dithering enabled, gamma = 1 and invert = false, a pixel that
\* dither quantized to the level k of the palette length L is rendered as
\* palette index k; k is the level nearest to the sample dither returned.
C19_LevelIsIndexClaimed ==
    RenderCalled /\ pc = "done" /\ dither /\ gamma = 1 /\ ~invert /\ returned = "out" =>
        \A c \in Cells(work) :
            At(indices, c) = (2 * At(work, c) * (Len(charset) - 1) + 255) \div 510
====
